---- MODULE Spec2Model ----
(***************************************************************************)
(* State-machine model of UniversalApiRetryInterceptor (src/src/index.ts): *)
(* the pending-request registry, the retry sweep (retryPendingRequests),   *)
(* the timer loop, the online/offline handlers and the public lifecycle    *)
(* operations.  One action is one run-to-completion step of the JavaScript *)
(* event loop: a public call, a timer callback, a connectivity event, or   *)
(* the continuation of a sweep after its awaited fetch has settled.        *)
(***************************************************************************)
EXTENDS Integers, Sequences, FiniteSets, Bags, TLC

\* ------------------------------------------------------------------ bounds
MaxReq == 2          \* intercepted requests issued over a run
MaxSweeps == 2       \* sweeps suspended on an awaited dispatch at one time
MaxMaxRetries == 2   \* largest maxRetries a configuration carries
MaxDelay == 1        \* largest delayTime, in clock ticks
MaxInterval == 1     \* largest retryInterval, in clock ticks

Ids == 1..MaxReq

\* ------------------------------------------------------- dispatch outcomes
\* A settled fetch: a response (its status) or a thrown error.  status = -1
\* stands for "no response"; name = "none" for "no error" (null).
NoStatus == -1
NoError == [name |-> "none", msgFetch |-> FALSE]
TypeErr == [name |-> "TypeError", msgFetch |-> TRUE]
AbortErr == [name |-> "AbortError", msgFetch |-> FALSE]

Response(status) == [status |-> status, error |-> NoError]
Thrown(error) == [status |-> NoStatus, error |-> error]

Outcomes == {Response(200), Response(404), Response(500), Thrown(TypeErr), Thrown(AbortErr)}
FailOutcomes == {Response(500)}

\* response.ok
ok(status) == status >= 200 /\ status <= 299

\* (mutant of defaultRetryCondition: 429 is missing from the statuses)
defaultRetryConditionNo429(error, status) ==
  IF status = NoStatus /\ (error.name = "TypeError" \/ error.msgFetch)
  THEN TRUE
  ELSE IF status # NoStatus
       THEN status >= 500 \/ status = 408 \/ status = 0
       ELSE FALSE

\* defaultRetryCondition(error, response)
defaultRetryCondition(error, status) ==
  IF status = NoStatus /\ (error.name = "TypeError" \/ error.msgFetch)
  THEN TRUE
  ELSE IF status # NoStatus
       THEN status >= 500 \/ status = 408 \/ status = 429 \/ status = 0
       ELSE FALSE

\* ------------------------------------------------------------------- state
VARIABLES
  config,           \* this.config: maxRetries, delayTime, retryInterval
  pendingRequests,  \* this.pendingRequests: the Map's keys in insertion order
  isOnline,         \* this.isOnline
  isActive,         \* this.isActive
  retryTimer,       \* TRUE while the setTimeout of retryLoop is armed
  timers,           \* pending timeouts of retryLoop the platform holds
  timerLeft,        \* ticks until the armed timeout is due
  listeners,        \* pairs of online/offline listeners attached to window
  navOnline,        \* navigator.onLine, the platform's connectivity
  phase,            \* per request: "unused", "inflight", "final", "stored"
  retryCount,       \* request.retryCount
  onRetryArg,       \* per request: the attempt number config.onRetry was last
                    \* invoked with, 0 before its first invocation
  age,              \* Date.now() - request.timestamp, saturating at MaxDelay,
                    \* while the registry or a sweep refers to the entry
  fired,            \* per request: how often each continuation was invoked
  onMaxCalls,       \* per request: invocations of config.onMaxRetriesExceeded
  promise,          \* per request: the promise handed to the caller: "none",
                    \* "pending", "resolved", or the error it was rejected with
  sweeps,           \* the bag of retryPendingRequests calls suspended at their
                    \* await: the entry being dispatched, the entries still to do
  onMaxThrows,      \* config.onMaxRetriesExceeded is a function that throws
  globalInterceptor, \* the module variable globalInterceptor: 0 for null, else
                    \* the number of the instance it refers to
  id,               \* per request: the id generateRequestId gives its entry
  probe             \* an argument pair handed to the retry condition, and
                    \* what it answered

vars == <<config, pendingRequests, isOnline, isActive, retryTimer, timerLeft,
          listeners, navOnline, phase, retryCount, age, fired, onMaxCalls,
          promise, sweeps, timers, onMaxThrows, probe, onRetryArg,
          globalInterceptor, id>>

\* what no step of the interceptor assigns
fixed == <<onMaxThrows, probe, globalInterceptor, id>>

Configs == [maxRetries : 0..MaxMaxRetries, delayTime : 0..MaxDelay,
            retryInterval : 1..MaxInterval]

NoFires == [resolve |-> 0, cleared |-> 0, maxErr |-> 0, rawErr |-> 0]

\* no call of the retry condition recorded
NoProbe == [error |-> NoError, status |-> NoStatus, answer |-> "none"]

\* constructor, lines 14-36
Constructed ==
  /\ config \in Configs
  /\ pendingRequests = <<>>
  /\ navOnline \in BOOLEAN
  /\ isOnline = navOnline
  /\ isActive = FALSE
  /\ retryTimer = FALSE
  /\ timerLeft = 0
  /\ listeners = 0
  /\ timers = 0
  /\ phase = [i \in Ids |-> "unused"]
  /\ retryCount = [i \in Ids |-> 0]
  /\ onRetryArg = [i \in Ids |-> 0]
  /\ age = [i \in Ids |-> 0]
  /\ fired = [i \in Ids |-> NoFires]
  /\ onMaxCalls = [i \in Ids |-> 0]
  /\ promise = [i \in Ids |-> "none"]
  /\ sweeps = EmptyBag

\* an interceptor made with new, not the global one; the ids its entries
\* will be given are all different
Standalone ==
  /\ globalInterceptor = 0
  /\ id = [i \in Ids |-> i]

\* a new interceptor whose observers return normally
Init ==
  /\ Constructed
  /\ Standalone
  /\ onMaxThrows = FALSE
  /\ probe = NoProbe

\* ----------------------------------------------------------------- helpers
Range(s) == {s[k] : k \in 1..Len(s)}
InRegistry(i) == i \in Range(pendingRequests)
\* Map.delete(request.id): the registry without the entry under i's id
Without(s, i) == SelectSeq(s, LAMBDA x : id[x] # id[i])

\* Map.set(request.id, request): an entry already under that id is replaced
\* where it stands, otherwise the new entry goes last
MapSet(s, i) ==
  IF \E k \in 1..Len(s) : id[s[k]] = id[i]
  THEN [k \in 1..Len(s) |-> IF id[s[k]] = id[i] THEN i ELSE s[k]]
  ELSE Append(s, i)
Running == BagToSet(sweeps)
NoSweep == [cur |-> 0, rest |-> <<>>]
Held(i) == \E r \in Running : r.cur = i \/ i \in Range(r.rest)
InFlight(i) == \E r \in Running : r.cur = i
Fires(i) == fired[i].resolve + fired[i].cleared + fired[i].maxErr + fired[i].rawErr

\* request.resolve(response): the promise's own resolve
Resolved(p) == IF p = "pending" THEN "resolved" ELSE p

\* request.reject(error): the wrapper of handleFailedRequest, lines 376-382,
\* which forwards every error but INTERCEPTOR_CLEARED to the promise's reject
Rejected(p, signal) ==
  IF signal # "cleared" THEN (IF p = "pending" THEN signal ELSE p) ELSE p


\* An entry object that neither the registry nor a suspended sweep refers to
\* any more is garbage: its timestamp is never read again, and the ages a are
\* recorded without it.  reg and sw are the registry and the sweeps that remain.
Forget(a, reg, sw) ==
  [i \in Ids |->
     IF i \in Range(reg) \/ \E r \in BagToSet(sw) : r.cur = i \/ i \in Range(r.rest)
     THEN a[i] ELSE 0]

\* -------------------------------------------------------------- the sweep
\* (mutant of IsDue: the comparison is off by one tick)
IsDueOffByOne(i) == ~(age[i] < config.delayTime - 1)

\* lines 424-427: an entry is skipped while timeSinceLastAttempt < delayTime
IsDue(i) == ~(age[i] < config.delayTime)

\* (mutant of FirstDue: entries no longer in the registry are skipped as well)
FirstDueRegistered(snap) ==
  IF \E k \in 1..Len(snap) : IsDue(snap[k]) /\ InRegistry(snap[k])
  THEN CHOOSE k \in 1..Len(snap) :
         /\ IsDue(snap[k]) /\ InRegistry(snap[k])
         /\ \A j \in 1..(k - 1) : ~(IsDue(snap[j]) /\ InRegistry(snap[j]))
  ELSE 0

\* index of the first entry of snap the for-loop does not skip, 0 if none
FirstDue(snap) ==
  IF \E k \in 1..Len(snap) : IsDue(snap[k])
  THEN CHOOSE k \in 1..Len(snap) : IsDue(snap[k]) /\ \A j \in 1..(k - 1) : ~IsDue(snap[j])
  ELSE 0

\* (mutant of RunLoop: onRetry is handed the count as it was before retryCount++)
RunLoopStaleAttempt(snap, r, reg) ==
  LET k == FirstDue(snap)
      others == IF r = NoSweep THEN sweeps ELSE sweeps (-) SetToBag({r})
      next == [cur |-> snap[k], rest |-> SubSeq(snap, k + 1, Len(snap))]
  IN IF k = 0
     THEN /\ sweeps' = others
          /\ retryCount' = retryCount
          /\ onRetryArg' = onRetryArg
          /\ age' = Forget(age, reg, others)
     ELSE /\ sweeps' = others (+) SetToBag({next})
          /\ retryCount' = [retryCount EXCEPT ![snap[k]] = @ + 1]
          /\ onRetryArg' = [onRetryArg EXCEPT ![snap[k]] = retryCount[snap[k]]]
          /\ age' = Forget([age EXCEPT ![snap[k]] = 0], reg, others (+) SetToBag({next}))

\* The for-loop of retryPendingRequests run over the entries snap until its
\* next await (lines 423-444): skipped entries are passed over, the first due
\* entry gets retryCount++, a fresh timestamp, and is dispatched; the sweep
\* then waits for that fetch.  r is the suspended sweep that continues,
\* NoSweep for a sweep that has just begun; reg is the registry as the step
\* leaves it.  With no due entry the sweep ends.
RunLoop(snap, r, reg) ==
  LET k == FirstDue(snap)
      others == IF r = NoSweep THEN sweeps ELSE sweeps (-) SetToBag({r})
      next == [cur |-> snap[k], rest |-> SubSeq(snap, k + 1, Len(snap))]
  IN IF k = 0
     THEN /\ sweeps' = others
          /\ retryCount' = retryCount
          /\ onRetryArg' = onRetryArg
          /\ age' = Forget(age, reg, others)
     ELSE /\ sweeps' = others (+) SetToBag({next})
          /\ retryCount' = [retryCount EXCEPT ![snap[k]] = @ + 1]
          /\ onRetryArg' = [onRetryArg EXCEPT ![snap[k]] = retryCount[snap[k]] + 1]
          /\ age' = Forget([age EXCEPT ![snap[k]] = 0], reg, others (+) SetToBag({next}))

\* a sweep that begins now would not exceed the model's bound on sweeps
Room == BagCardinality(sweeps) < MaxSweeps \/ FirstDue(pendingRequests) = 0

\* retryPendingRequests(), lines 420-444: snapshot of the registry, then the loop
retryPendingRequests == RunLoop(pendingRequests, NoSweep, pendingRequests)

\* the body of retryLoop, lines 411-413
SweepIfOnline ==
  IF isOnline /\ Len(pendingRequests) > 0
  THEN retryPendingRequests
  ELSE UNCHANGED <<retryCount, onRetryArg, age, sweeps>>

\* (mutant of Verdict: the ceiling is looked at before the response)
VerdictCeilingFirst(i, o) ==
  IF o.status # NoStatus
  THEN IF retryCount[i] >= config.maxRetries THEN "maxErr"
       ELSE IF ok(o.status) \/ ~defaultRetryCondition(NoError, o.status) THEN "resolve"
       ELSE "keep"
  ELSE IF retryCount[i] >= config.maxRetries THEN "exhaustedRaw"
       ELSE IF ~defaultRetryCondition(o.error, NoStatus) THEN "rawErr"
       ELSE "keep"

\* (mutant of Verdict: the ceiling is taken one attempt too low)
VerdictOneShort(i, o) ==
  IF o.status # NoStatus
  THEN IF ok(o.status) \/ ~defaultRetryCondition(NoError, o.status) THEN "resolve"
       ELSE IF retryCount[i] >= config.maxRetries - 1 THEN "maxErr"
       ELSE "keep"
  ELSE IF retryCount[i] >= config.maxRetries - 1 THEN "exhaustedRaw"
       ELSE IF ~defaultRetryCondition(o.error, NoStatus) THEN "rawErr"
       ELSE "keep"

\* what the code after the await does with the entry i, lines 446-482
\* (try branch for a response, catch branch for a thrown error)
Verdict(i, o) ==
  IF o.status # NoStatus
  THEN IF ok(o.status) \/ ~defaultRetryCondition(NoError, o.status) THEN "resolve"
       ELSE IF retryCount[i] >= config.maxRetries THEN "maxErr"
       ELSE "keep"
  ELSE IF retryCount[i] >= config.maxRetries THEN "exhaustedRaw"
       ELSE IF ~defaultRetryCondition(o.error, NoStatus) THEN "rawErr"
       ELSE "keep"

\* the registry after entry i met verdict v: pendingRequests.delete(request.id)
Left(i, v) == IF v = "keep" THEN pendingRequests ELSE Without(pendingRequests, i)

\* An onMaxRetriesExceeded that throws: thrown at line 454 the exception is
\* caught at line 463, where the observer is called again (line 466) and
\* throws out of the catch block; thrown at line 466 it leaves at once.  The
\* exception ends the async function: the sweep is over, request.reject (lines
\* 458, 470) is never reached.
Aborted(v) == onMaxThrows /\ v \in {"maxErr", "exhaustedRaw"}

\* the settlement of entry i under verdict v: delete from the registry, the
\* observer, then the continuation
Settle(i, v) ==
  IF v = "keep"
  THEN UNCHANGED <<pendingRequests, fired, onMaxCalls, promise>>
  ELSE IF Aborted(v)
  THEN /\ pendingRequests' = Left(i, v)
       /\ onMaxCalls' = [onMaxCalls EXCEPT ![i] = IF v = "maxErr" THEN @ + 2 ELSE @ + 1]
       /\ UNCHANGED <<fired, promise>>
  ELSE /\ pendingRequests' = Left(i, v)
       /\ onMaxCalls' = [onMaxCalls EXCEPT ![i] = IF v \in {"maxErr", "exhaustedRaw"} THEN @ + 1 ELSE @]
       /\ fired' = [fired EXCEPT ![i] =
                      CASE v = "resolve" -> [@ EXCEPT !.resolve = @ + 1]
                        [] v = "maxErr" -> [@ EXCEPT !.maxErr = @ + 1]
                        [] OTHER -> [@ EXCEPT !.rawErr = @ + 1]]
       /\ promise' = [promise EXCEPT ![i] =
                        IF v = "resolve" THEN Resolved(@)
                        ELSE Rejected(@, IF v = "maxErr" THEN "maxErr" ELSE "rawErr")]

\* the awaited fetch of sweep r settles with outcome o: lines 446-483 for the
\* current entry, then the loop goes on with the rest of the snapshot
DispatchReturn(r, o) ==
  /\ r \in Running
  /\ Settle(r.cur, Verdict(r.cur, o))
  /\ IF Aborted(Verdict(r.cur, o))
     THEN /\ sweeps' = sweeps (-) SetToBag({r})
          /\ retryCount' = retryCount
          /\ onRetryArg' = onRetryArg
          /\ age' = Forget(age, Left(r.cur, Verdict(r.cur, o)), sweeps (-) SetToBag({r}))
     ELSE RunLoop(r.rest, r, Left(r.cur, Verdict(r.cur, o)))
  /\ UNCHANGED <<config, isOnline, isActive, retryTimer, timerLeft, listeners, timers, fixed,
                 navOnline, phase>>

\* ------------------------------------------------------- timer and events
\* the timer callback retryLoop, lines 410-415
retryLoop ==
  /\ retryTimer /\ timerLeft = 0
  /\ Room
  /\ SweepIfOnline
  /\ timerLeft' = config.retryInterval
  /\ UNCHANGED <<config, pendingRequests, isOnline, isActive, retryTimer,
                 listeners, timers, fixed, navOnline, phase, fired, onMaxCalls, promise>>

\* (mutant of handleOnline: the flag is set, no sweep is started)
handleOnlineFlagOnly ==
  /\ isOnline' = TRUE
  /\ UNCHANGED <<retryCount, onRetryArg, age, sweeps>>

\* handleOnline, lines 398-402
handleOnline ==
  /\ isOnline' = TRUE
  /\ retryPendingRequests

\* handleOffline, lines 404-407
handleOffline == isOnline' = FALSE

\* the platform comes online; the "online" event reaches attached listeners
GoOnline ==
  /\ ~navOnline
  /\ navOnline' = TRUE
  /\ IF listeners > 0
     THEN Room /\ handleOnline
     ELSE UNCHANGED <<isOnline, retryCount, onRetryArg, age, sweeps>>
  /\ UNCHANGED <<config, pendingRequests, isActive, retryTimer, timerLeft,
                 listeners, timers, fixed, phase, fired, onMaxCalls, promise>>

\* the platform goes offline; the "offline" event reaches attached listeners
GoOffline ==
  /\ navOnline
  /\ navOnline' = FALSE
  /\ IF listeners > 0 THEN handleOffline ELSE UNCHANGED isOnline
  /\ UNCHANGED <<config, pendingRequests, isActive, retryTimer, timerLeft,
                 listeners, timers, fixed, phase, retryCount, onRetryArg, age, fired, onMaxCalls, promise,
                 sweeps>>

\* one clock tick passes: every timestamp grows one tick older
Tick ==
  /\ age' = [i \in Ids |-> IF (InRegistry(i) \/ Held(i)) /\ age[i] < MaxDelay
                            THEN age[i] + 1 ELSE age[i]]
  /\ timerLeft' = IF timerLeft > 0 THEN timerLeft - 1 ELSE 0
  /\ UNCHANGED <<config, pendingRequests, isOnline, isActive, retryTimer,
                 listeners, timers, fixed, navOnline, phase, retryCount, onRetryArg, fired, onMaxCalls,
                 promise, sweeps>>

\* ------------------------------------------------------ public operations
\* clearPendingRequests(), lines 495-502
clearPendingRequests ==
  /\ fired' = [i \in Ids |-> IF InRegistry(i)
                             THEN [fired[i] EXCEPT !.cleared = @ + 1]
                             ELSE fired[i]]
  /\ promise' = [i \in Ids |-> IF InRegistry(i) THEN Rejected(promise[i], "cleared")
                                                ELSE promise[i]]
  /\ pendingRequests' = <<>>

\* (mutant of Clear: the clear also halts the timer and deactivates, as stop does)
ClearAndHalt ==
  /\ clearPendingRequests
  /\ retryTimer' = FALSE
  /\ timers' = IF retryTimer /\ timers > 0 THEN timers - 1 ELSE timers
  /\ timerLeft' = 0
  /\ isActive' = FALSE
  /\ age' = Forget(age, <<>>, sweeps)
  /\ UNCHANGED <<config, isOnline, listeners, navOnline, phase, retryCount, onRetryArg,
                 onMaxCalls, sweeps, fixed>>

\* the application calls clearPendingRequests()
Clear ==
  /\ clearPendingRequests
  /\ age' = Forget(age, <<>>, sweeps)
  /\ UNCHANGED <<config, isOnline, isActive, retryTimer, timerLeft, listeners, timers, fixed,
                 navOnline, phase, retryCount, onRetryArg, onMaxCalls, sweeps>>

\* (mutant of start: the test of isActive at line 61 is missing)
startUnguarded ==
  /\ Room
  /\ listeners' = listeners + 1
  /\ SweepIfOnline
  /\ retryTimer' = TRUE
  /\ timers' = timers + 1
  /\ timerLeft' = config.retryInterval
  /\ isActive' = TRUE
  /\ UNCHANGED <<config, pendingRequests, isOnline, navOnline, phase,
                 fired, onMaxCalls, promise, fixed>>

\* start(), lines 60-72
start ==
  IF isActive
  THEN UNCHANGED vars
  ELSE /\ Room
       /\ listeners' = listeners + 1
       /\ SweepIfOnline
       /\ retryTimer' = TRUE
       /\ timers' = timers + 1
       /\ timerLeft' = config.retryInterval
       /\ isActive' = TRUE
       /\ UNCHANGED <<config, pendingRequests, isOnline, navOnline, phase,
                      fired, onMaxCalls, promise, fixed>>

\* stop(), lines 74-90
stop ==
  IF ~isActive
  THEN UNCHANGED vars
  ELSE /\ retryTimer' = FALSE
       /\ timers' = IF retryTimer /\ timers > 0 THEN timers - 1 ELSE timers
       /\ timerLeft' = 0
       /\ listeners' = IF listeners > 0 THEN listeners - 1 ELSE 0
       /\ clearPendingRequests
       /\ isActive' = FALSE
       /\ age' = Forget(age, <<>>, sweeps)
       /\ UNCHANGED <<config, isOnline, navOnline, phase, retryCount, onRetryArg,
                      onMaxCalls, sweeps, fixed>>

\* updateConfig(newConfig), lines 504-507: { ...this.config, ...newConfig }.
\* The partial configurations tried carry at most one field; an update of
\* several fields reaches the same configurations as updates of one field each.
Fields == {"maxRetries", "delayTime", "retryInterval"}
Partials ==
  UNION {{p \in [S -> 0..(MaxMaxRetries + MaxDelay + MaxInterval)] :
            [f \in Fields |-> IF f \in S THEN p[f] ELSE config[f]] \in Configs}
         : S \in {T \in SUBSET Fields : Cardinality(T) <= 1}}
Merge(c, p) == [f \in DOMAIN c |-> IF f \in DOMAIN p THEN p[f] ELSE c[f]]

updateConfig(newConfig) ==
  /\ config' = Merge(config, newConfig)
  /\ UNCHANGED <<pendingRequests, isOnline, isActive, retryTimer, timerLeft,
                 listeners, timers, fixed, navOnline, phase, retryCount, onRetryArg, age, fired,
                 onMaxCalls, promise, sweeps>>

\* ------------------------------------------------- the intercepted fetch
\* handleFailedRequest, lines 362-388: a new entry, a pending promise
handleFailedRequest(i) ==
  /\ pendingRequests' = MapSet(pendingRequests, i)
  /\ retryCount' = [retryCount EXCEPT ![i] = 0]
  /\ onRetryArg' = onRetryArg
  /\ age' = [age EXCEPT ![i] = 0]
  /\ promise' = [promise EXCEPT ![i] = "pending"]
  /\ phase' = [phase EXCEPT ![i] = "stored"]

\* the application calls window.fetch while it is the wrapper, lines 96-104
FetchCall ==
  /\ isActive
  /\ \E i \in Ids :
       /\ phase[i] = "unused"
       /\ \A j \in Ids : j < i => phase[j] # "unused"
       /\ phase' = [phase EXCEPT ![i] = "inflight"]
  /\ UNCHANGED <<config, pendingRequests, isOnline, isActive, retryTimer,
                 timerLeft, listeners, timers, fixed, navOnline, retryCount, onRetryArg, age, fired,
                 onMaxCalls, promise, sweeps>>

\* (mutant of Eligible: every failure is enqueued, the condition is not asked)
EligibleUnasked(o) == o.status = NoStatus \/ ~ok(o.status)

\* the original fetch of request i settles with outcome o, lines 104-133
Eligible(o) ==
  IF o.status # NoStatus
  THEN ~ok(o.status) /\ defaultRetryCondition(NoError, o.status)
  ELSE defaultRetryCondition(o.error, NoStatus)

FetchSettle(i, o) ==
  /\ phase[i] = "inflight"
  /\ IF Eligible(o)
     THEN handleFailedRequest(i)
     ELSE /\ phase' = [phase EXCEPT ![i] = "final"]
          /\ UNCHANGED <<pendingRequests, retryCount, onRetryArg, age, promise>>
  /\ UNCHANGED <<config, isOnline, isActive, retryTimer, timerLeft, listeners, timers, fixed,
                 navOnline, fired, onMaxCalls, sweeps>>

\* ---------------------------------------------------------- specification
Next ==
  \/ start
  \/ stop
  \/ Clear
  \/ \E p \in Partials : updateConfig(p)
  \/ FetchCall
  \/ \E i \in Ids, o \in Outcomes : FetchSettle(i, o)
  \/ retryLoop
  \/ GoOnline
  \/ GoOffline
  \/ Tick
  \/ \E r \in Running, o \in Outcomes : DispatchReturn(r, o)

Spec == Init /\ [][Next]_vars

\* Every re-dispatch answers with a retryable failure (status 500), and
\* nobody stops, clears or reconfigures the interceptor.
FailNext ==
  \/ start
  \/ FetchCall
  \/ \E i \in Ids, o \in Outcomes : FetchSettle(i, o)
  \/ retryLoop
  \/ GoOnline
  \/ GoOffline
  \/ Tick
  \/ \E r \in Running, o \in FailOutcomes : DispatchReturn(r, o)

FailSpec == Init /\ [][FailNext]_vars

\* Nobody stops or clears the interceptor; the timer fires, the clock advances
\* and every dispatch comes back.
LiveNext ==
  \/ start
  \/ \E p \in Partials : updateConfig(p)
  \/ FetchCall
  \/ \E i \in Ids, o \in Outcomes : FetchSettle(i, o)
  \/ retryLoop
  \/ GoOnline
  \/ GoOffline
  \/ Tick
  \/ \E r \in Running, o \in Outcomes : DispatchReturn(r, o)

LiveSpec ==
  /\ Init
  /\ [][LiveNext]_vars
  /\ WF_vars(retryLoop)
  /\ WF_vars(Tick)
  /\ WF_vars(\E r \in Running, o \in Outcomes : DispatchReturn(r, o))

\* Requests fail, and are enqueued, only while the platform is offline and
\* recorded as offline; nobody stops or clears the interceptor.
EnqueueOffline(i, o) ==
  /\ ~isOnline /\ ~navOnline
  /\ FetchSettle(i, o)

OfflineNext ==
  \/ start
  \/ \E p \in Partials : updateConfig(p)
  \/ FetchCall
  \/ \E i \in Ids, o \in Outcomes : EnqueueOffline(i, o)
  \/ retryLoop
  \/ GoOnline
  \/ GoOffline
  \/ Tick
  \/ \E r \in Running, o \in Outcomes : DispatchReturn(r, o)

OfflineSpec == Init /\ [][OfflineNext]_vars

\* The application clears the registry now and then; nobody stops or
\* reconfigures the interceptor.
ClearNext ==
  \/ start
  \/ Clear
  \/ FetchCall
  \/ \E i \in Ids, o \in Outcomes : FetchSettle(i, o)
  \/ retryLoop
  \/ GoOnline
  \/ GoOffline
  \/ Tick
  \/ \E r \in Running, o \in Outcomes : DispatchReturn(r, o)

ClearSpec == Init /\ [][ClearNext]_vars

\* The application has configured an onMaxRetriesExceeded that throws; nobody
\* stops, clears or reconfigures the interceptor.
ThrowInit ==
  /\ Constructed
  /\ Standalone
  /\ onMaxThrows = TRUE
  /\ probe = NoProbe

ThrowNext ==
  \/ start
  \/ FetchCall
  \/ \E i \in Ids, o \in Outcomes : FetchSettle(i, o)
  \/ retryLoop
  \/ GoOnline
  \/ GoOffline
  \/ Tick
  \/ \E r \in Running, o \in Outcomes : DispatchReturn(r, o)

ThrowSpec == ThrowInit /\ [][ThrowNext]_vars

\* The retry condition on its own.  The errors it may be handed: null, or an
\* object with some name whose message does or does not contain "fetch"; the
\* object of xhr.onerror (line 194) has the name "NetworkError" and no message.
XhrErr == [name |-> "NetworkError", msgFetch |-> FALSE]
Errors ==
  {NoError, XhrErr}
    \cup [name : {"TypeError", "NetworkError", "AbortError", "Error"}, msgFetch : BOOLEAN]
Statuses ==
  {NoStatus, 0, 200, 204, 301, 304, 400, 401, 403, 404, 408, 409, 422, 429,
   499, 500, 502, 503, 504, 599}

PolicyInit ==
  /\ Constructed
  /\ Standalone
  /\ onMaxThrows = FALSE
  /\ probe \in [error : Errors, status : Statuses, answer : {"none"}]

\* config.retryCondition(error, response) is called and answers
Classify ==
  /\ probe.answer = "none"
  /\ probe' = [probe EXCEPT !.answer = IF defaultRetryCondition(probe.error, probe.status)
                                        THEN "retry" ELSE "final"]
  /\ UNCHANGED <<config, pendingRequests, isOnline, isActive, retryTimer,
                 timerLeft, listeners, timers, navOnline, phase, retryCount, onRetryArg,
                 age, fired, onMaxCalls, promise, sweeps, onMaxThrows,
                 globalInterceptor, id>>

PolicyNext == Classify

PolicySpec == PolicyInit /\ [][PolicyNext]_vars

\* ------------------------------------------------------ the global instance
\* (mutant of startGlobalInterceptor: a stopped instance is replaced by a
\* new one made from the call's config)
startGlobalInterceptorAfresh(c) ==
  IF globalInterceptor = 0 \/ ~isActive
  THEN /\ Room
       /\ globalInterceptor' = globalInterceptor + 1
       /\ config' = c
       /\ isOnline' = navOnline
       /\ listeners' = listeners + 1
       /\ retryTimer' = TRUE
       /\ timers' = timers + 1
       /\ timerLeft' = c.retryInterval
       /\ isActive' = TRUE
       /\ UNCHANGED <<pendingRequests, navOnline, phase, retryCount,
                      onRetryArg, age, fired, onMaxCalls, promise, sweeps,
                      onMaxThrows, probe, id>>
  ELSE start

\* startGlobalInterceptor(config), lines 526-534. With no instance yet, one is
\* constructed from c (lines 21-36: the online flag is read from the platform,
\* the registry is empty) and started (lines 60-72: nothing is queued, so
\* the first pass of the loop dispatches nothing); otherwise c is not looked
\* at and the instance there is is started.
startGlobalInterceptor(c) ==
  IF globalInterceptor = 0
  THEN /\ globalInterceptor' = 1
       /\ config' = c
       /\ isOnline' = navOnline
       /\ listeners' = listeners + 1
       /\ retryTimer' = TRUE
       /\ timers' = timers + 1
       /\ timerLeft' = c.retryInterval
       /\ isActive' = TRUE
       /\ UNCHANGED <<pendingRequests, navOnline, phase, retryCount,
                      onRetryArg, age, fired, onMaxCalls, promise, sweeps,
                      onMaxThrows, probe, id>>
  ELSE start

\* stopGlobalInterceptor(), lines 536-540
stopGlobalInterceptor ==
  IF globalInterceptor # 0 THEN stop ELSE UNCHANGED vars

\* getGlobalInterceptor(), lines 542-544
getGlobalInterceptor == globalInterceptor

\* a page that uses the engine through the global functions only. Before the
\* first startGlobalInterceptor there is no instance: fetch is not patched,
\* no listener is attached, no timer runs, and the engine fields hold what
\* the constructor will give them (config is set by the call).
GlobalNext ==
  \/ \E c \in Configs : startGlobalInterceptor(c)
  \/ stopGlobalInterceptor
  \/ FetchCall
  \/ \E i \in Ids, o \in Outcomes : FetchSettle(i, o)
  \/ retryLoop
  \/ GoOnline
  \/ GoOffline
  \/ Tick
  \/ \E r \in Running, o \in Outcomes : DispatchReturn(r, o)

GlobalSpec == Init /\ [][GlobalNext]_vars

\* ------------------------------------------------------------ generated ids
\* generateRequestId(), lines 487-489: Math.random() in base 36 followed by
\* the millisecond clock in base 36. Nothing makes two calls differ: two
\* failures of the same millisecond whose random parts agree get the same
\* string. The id each request will be given is drawn here, named after the
\* earliest request that gets the same string.
generateRequestId == {f \in [Ids -> Ids] : \A i \in Ids : f[i] <= i}

\* an interceptor made with new whose generated ids may coincide
CollideInit ==
  /\ Constructed
  /\ globalInterceptor = 0
  /\ id \in generateRequestId
  /\ onMaxThrows = FALSE
  /\ probe = NoProbe

CollideNext ==
  \/ start
  \/ FetchCall
  \/ \E i \in Ids, o \in Outcomes : FetchSettle(i, o)
  \/ retryLoop
  \/ GoOnline
  \/ GoOffline
  \/ Tick
  \/ \E r \in Running, o \in Outcomes : DispatchReturn(r, o)

CollideSpec == CollideInit /\ [][CollideNext]_vars

TypeOK ==
  /\ config \in Configs
  /\ Range(pendingRequests) \subseteq Ids
  /\ BagCardinality(sweeps) <= MaxSweeps


\* -------------------------------------------------------------- properties

\* C1: every entry's continuations fire at most once in total, and an entry
\* whose continuation has fired is no longer in the registry.
C1_SettledOnce ==
  \A i \in Ids : Fires(i) <= 1 /\ (Fires(i) >= 1 => ~InRegistry(i))

\* C2: every entry in the registry has retryCount <= the current maxRetries.
C2_RetryCeiling ==
  \A i \in Ids : InRegistry(i) => retryCount[i] <= config.maxRetries

\* C3: at most one sweep is in progress (suspended on a dispatch) at a time.
C3_SingleSweep == BagCardinality(sweeps) <= 1

\* C4: the promise of every entry that clearPendingRequests()/stop() rejected
\* is settled with the Cleared signal.
C4_ClearedSettlesCaller ==
  \A i \in Ids : fired[i].cleared > 0 => promise[i] = "cleared"

\* C5: an entry rejected by clearPendingRequests() is out of the registry and
\* never fires its success continuation nor is reported as exhausted.
C5_ClearIsFinal ==
  \A i \in Ids : fired[i].cleared > 0 =>
     /\ ~InRegistry(i)
     /\ fired[i].cleared = 1
     /\ fired[i].resolve = 0
     /\ fired[i].maxErr = 0
     /\ onMaxCalls[i] = 0

\* C6: if from some point on the engine is Active and the platform online,
\* every entry in the registry is eventually removed with its caller settled.
C6_EventuallySettled ==
  <>[](isActive /\ navOnline) =>
    \A i \in Ids : [](InRegistry(i) =>
                        <>(~InRegistry(i) /\ promise[i] \notin {"none", "pending"}))

\* C7: under maxRetries = N >= 1 with every re-dispatch failing retryably an
\* entry is dispatched at most N times, onMaxRetriesExceeded is invoked at most
\* once for it, and then after exactly N dispatches with the max-retries error.
C7_ExactlyN ==
  \A i \in Ids : config.maxRetries >= 1 =>
     /\ retryCount[i] <= config.maxRetries
     /\ onMaxCalls[i] <= 1
     /\ onMaxCalls[i] = 1 =>
          retryCount[i] = config.maxRetries /\ promise[i] = "maxErr" /\ Fires(i) = 1

\* C8: a queued entry at rest whose retryCount (>= 1) has reached maxRetries
\* is not incremented (not dispatched) by any later step.
C8_LoweredCeilingStops ==
  [][\A i \in Ids :
       (InRegistry(i) /\ ~InFlight(i) /\ retryCount[i] >= 1
          /\ retryCount[i] >= config.maxRetries)
       => retryCount'[i] = retryCount[i]]_vars

\* C9: a step that dispatches an entry (increments its retryCount) finds at
\* least delayTime elapsed since the entry's timestamp.
C9_NoEarlyDispatch ==
  [][\A i \in Ids : retryCount'[i] > retryCount[i] => age[i] >= config.delayTime]_vars

\* C9 witness: a second re-dispatch is in flight under a non-zero delayTime
C9_Witness ==
  \E i \in Ids : InFlight(i) /\ retryCount[i] >= 2 /\ config.delayTime >= 1

\* C10: no step dispatches an entry while the recorded connectivity is offline.
C10_NoDispatchOffline ==
  [][\A i \in Ids : retryCount'[i] > retryCount[i] => isOnline']_vars

C12_OneLoop ==
  [][/\ timers' <= 1
     /\ listeners' <= 1
     /\ (isActive /\ start) => UNCHANGED vars]_vars

\* C12 witness: the engine is Active with its one timer and one listener pair
\* after a stop() or clear has rejected an entry, a further request in flight
C12_Witness ==
  /\ isActive /\ timers = 1 /\ listeners = 1
  /\ \E i \in Ids : fired[i].cleared = 1
  /\ \E j \in Ids : phase[j] = "inflight"

\* C13: an updateConfig made while a sweep waits for its dispatch leaves what
\* that sweep will do with the dispatched entry, for every outcome of the
\* dispatch, as it was under the values in force before the update.
C13_UpdateSparesSweep ==
  [][(\E p \in Partials : updateConfig(p)) =>
       \A r \in Running, o \in Outcomes : Verdict(r.cur, o)' = Verdict(r.cur, o)]_vars

C15_RetryableStatuses ==
  (probe.answer # "none" /\ probe.status # NoStatus) =>
     (probe.answer = "retry" <=>
        (probe.status >= 500 \/ probe.status \in {408, 429, 0}))

\* C15 witness: the responses 503 and 429 were classified
C15_Witness ==
  probe.answer = "retry" /\ probe.status \in {503, 429}

\* C16: handed an error and no response, the default retry condition answers
\* "retry" whatever the error's name and message.
C16_EveryTransportErrorRetryable ==
  (probe.answer # "none" /\ probe.status = NoStatus /\ probe.error # NoError) =>
     probe.answer = "retry"

\* C17: onMaxRetriesExceeded is invoked at most once for an entry, and only
\* for an entry that ends by exhaustion: one never resolved and never cleared,
\* whose failure continuation has fired.
C17_OnMaxOnceForExhausted ==
  \A i \in Ids :
     /\ onMaxCalls[i] <= 1
     /\ onMaxCalls[i] >= 1 =>
          /\ fired[i].resolve = 0
          /\ fired[i].cleared = 0
          /\ fired[i].maxErr + fired[i].rawErr >= 1

\* C18: with an observer that throws, every entry that was stored and is no
\* longer in the registry has had one of its continuations fired.
C18_NoSilentRemoval ==
  \A i \in Ids :
     (phase[i] = "stored" /\ ~InRegistry(i)) => Fires(i) >= 1

\* C19: when the original fetch of a request settles, the request is appended
\* to the registry exactly if it failed (no response, or a response that is
\* not ok) and the retry condition accepts the failure: then it is the one
\* new entry, with retryCount 0 and a pending promise for the caller; if not,
\* the registry is unchanged and the caller has the original outcome.
C19_EnqueueIffEligible ==
  [][\A i \in Ids, o \in Outcomes :
       FetchSettle(i, o) =>
         IF (o.status = NoStatus \/ ~ok(o.status))
              /\ defaultRetryCondition(o.error, o.status)
         THEN /\ ~InRegistry(i)
              /\ pendingRequests' = Append(pendingRequests, i)
              /\ retryCount'[i] = 0
              /\ promise'[i] = "pending"
         ELSE /\ pendingRequests' = pendingRequests
              /\ phase'[i] = "final"
              /\ promise'[i] = "none"]_vars

\* C19 witness: one request was handed back as final, another is the single
\* fresh entry of the registry
C19_Witness ==
  /\ Len(pendingRequests) = 1
  /\ \E i \in Ids : /\ InRegistry(i) /\ phase[i] = "stored"
                    /\ retryCount[i] = 0 /\ promise[i] = "pending"
  /\ \E j \in Ids : phase[j] = "final" /\ promise[j] = "none"

\* C20: a clearPendingRequests() step leaves the registry empty and the
\* active flag, the recorded connectivity, the armed timer, the listeners and
\* the policy as they were.
C20_ClearKeepsEngine ==
  [][Clear =>
       /\ pendingRequests' = <<>>
       /\ UNCHANGED <<isActive, isOnline, retryTimer, timers, timerLeft,
                      listeners, config>>]_vars

\* C20 witness: after a clear rejected one entry, a request enqueued later is
\* in the registry and a sweep is re-dispatching it
C20_Witness ==
  \E i, j \in Ids :
     /\ fired[i].cleared = 1
     /\ InRegistry(j) /\ fired[j].cleared = 0
     /\ InFlight(j) /\ retryCount[j] >= 1

\* C21: the spacing enforced before a re-dispatch grows with the attempt
\* number: one tick after an attempt has been made, under a delayTime of one
\* tick (the spacing of the first attempt), the entry is not yet due again.
C21_SpacingGrows ==
  [][\A i \in Ids :
       (InRegistry(i) /\ retryCount[i] >= 1 /\ config.delayTime = 1
          /\ age[i] = 0 /\ age'[i] = 1)
       => ~IsDue(i)']_vars

\* C22: when a re-dispatch returns a response that is ok, or one the retry
\* condition does not accept, the entry is out of the registry, its success
\* continuation has fired once more and the caller's pending promise is
\* resolved; no failure continuation fires and onMaxRetriesExceeded is not
\* invoked, whatever retryCount is.
C22_SuccessFirst ==
  [][\A r \in Running, o \in Outcomes :
       (/\ DispatchReturn(r, o)
        /\ o.status # NoStatus
        /\ (ok(o.status) \/ ~defaultRetryCondition(NoError, o.status)))
       => /\ r.cur \notin Range(pendingRequests')
          /\ fired'[r.cur] = [fired[r.cur] EXCEPT !.resolve = @ + 1]
          /\ onMaxCalls'[r.cur] = onMaxCalls[r.cur]
          /\ promise'[r.cur] = IF promise[r.cur] = "pending"
                               THEN "resolved" ELSE promise[r.cur]]_vars

\* C22 witness: under maxRetries = 2 an entry dispatched twice has ended with
\* its single continuation the success one, the observer never invoked: the
\* response of the second attempt resolved it
C22_Witness ==
  \E i \in Ids :
     /\ config.maxRetries = 2 /\ retryCount[i] = 2
     /\ ~Held(i)
     /\ fired[i].resolve = 1 /\ Fires(i) = 1 /\ onMaxCalls[i] = 0
     /\ promise[i] = "resolved"

\* C23: when a re-dispatch throws with retryCount >= maxRetries, the entry's
\* failure continuation fires with the max-retries-exceeded error.
C23_ThrownAtCeilingIsMaxError ==
  [][\A r \in Running, o \in Outcomes :
       (/\ DispatchReturn(r, o)
        /\ o.status = NoStatus
        /\ retryCount[r.cur] >= config.maxRetries)
       => fired'[r.cur].maxErr = fired[r.cur].maxErr + 1]_vars

\* C24: in every step an entry's retryCount stays or grows by one; a step in
\* which a sweep dispatches the entry grows it by one and invokes onRetry with
\* the attempt number following the last one; onRetry is invoked in no other
\* step.
C24_AttemptsInOrder ==
  [][\A i \in Ids :
       /\ retryCount'[i] \in {retryCount[i], retryCount[i] + 1}
       /\ onRetryArg'[i] \in {onRetryArg[i], onRetryArg[i] + 1}
       /\ (\E r \in BagToSet(sweeps' (-) sweeps) : r.cur = i)
            <=> onRetryArg'[i] = onRetryArg[i] + 1
       /\ (\E r \in BagToSet(sweeps' (-) sweeps) : r.cur = i)
            <=> retryCount'[i] = retryCount[i] + 1]_vars

\* C24 witness: two sweeps each have a dispatch of the same entry in flight,
\* the second announced to onRetry as attempt 2
C24_Witness ==
  \E i \in Ids :
     /\ BagCardinality(sweeps) = 2
     /\ \A r \in Running : r.cur = i
     /\ retryCount[i] = 2 /\ onRetryArg[i] = 2

\* C25: a sweep that begins takes the registry of that moment as its work;
\* a sweep that continues after a dispatch has returned dispatches the first
\* entry of its remaining work whose delayTime has elapsed, in or out of the
\* registry, keeps the entries after it as remaining work, and ends if there
\* is none: work is never added to a sweep in progress and no entry is passed
\* over for having left the registry.
C25_SweepWorksOnSnapshot ==
  [][/\ \A r \in Running, o \in Outcomes :
          DispatchReturn(r, o) =>
            LET D == {k \in 1..Len(r.rest) : age[r.rest[k]] >= config.delayTime}
                others == sweeps (-) SetToBag({r})
            IN IF D = {}
               THEN sweeps' = others
               ELSE \E k \in D :
                      /\ \A j \in D : k <= j
                      /\ sweeps' = others (+) SetToBag({[cur |-> r.rest[k],
                                      rest |-> SubSeq(r.rest, k + 1, Len(r.rest))]})
     /\ BagCardinality(sweeps') > BagCardinality(sweeps) =>
          \A r \in BagToSet(sweeps' (-) sweeps) :
             \E k \in 1..Len(pendingRequests) :
                /\ r.cur = pendingRequests[k]
                /\ r.rest = SubSeq(pendingRequests, k + 1, Len(pendingRequests))]_vars

\* C25 witness: a sweep has been waiting for its dispatch for a tick or more;
\* a request enqueued this tick is in the registry and not in the sweep's work
C25_Witness ==
  \E r \in Running, j \in Ids :
     /\ age[r.cur] = 1
     /\ InRegistry(j) /\ retryCount[j] = 0 /\ age[j] = 0
     /\ j # r.cur /\ j \notin Range(r.rest)

\* C26: a step that dispatches an entry (increments its retryCount, invokes
\* onRetry for it) finds the entry in the registry.
C26_DispatchOnlyRegistered ==
  [][\A i \in Ids : retryCount'[i] > retryCount[i] => InRegistry(i)]_vars

\* C27: at most one dispatch of an entry is in flight: at most one suspended
\* sweep is waiting for a fetch of that entry.
C27_OneDispatchInFlight ==
  \A i \in Ids :
     /\ Cardinality({r \in Running : r.cur = i}) <= 1
     /\ \A r \in Running : r.cur = i => CopiesIn(r, sweeps) <= 1

\* C28: between two states in which the engine is Inactive no entry is
\* dispatched and neither onRetry nor onMaxRetriesExceeded is invoked.
C28_QuietAfterStop ==
  [][(~isActive /\ ~isActive') =>
       \A i \in Ids : /\ retryCount'[i] = retryCount[i]
                      /\ onRetryArg'[i] = onRetryArg[i]
                      /\ onMaxCalls'[i] = onMaxCalls[i]]_vars

\* C29: while the engine is Inactive the registry is empty.
C29_InactiveRegistryEmpty == ~isActive => pendingRequests = <<>>

\* C30: while the engine is Active the recorded online flag equals the
\* platform's connectivity.
C30_OnlineFlagTrue == isActive => isOnline = navOnline

\* C31: the global interceptor is created only by the first
\* startGlobalInterceptor call. Until then getGlobalInterceptor is null and
\* nothing is active; the first call makes the instance with the config it was
\* given; from then on the handle never changes, and every later call, also
\* after stopGlobalInterceptor, leaves the policy as it was whatever config it
\* is given, and leaves that same instance active.
C31_GlobalCreatedOnce ==
  /\ [](getGlobalInterceptor \in {0, 1})
  /\ [](getGlobalInterceptor = 0 =>
          ~isActive /\ listeners = 0 /\ \A i \in Ids : phase[i] = "unused")
  /\ [][ /\ globalInterceptor # 0 => globalInterceptor' = globalInterceptor
         /\ \A c \in Configs :
              startGlobalInterceptor(c) =>
                /\ getGlobalInterceptor' # 0
                /\ isActive'
                /\ IF globalInterceptor = 0
                   THEN config' = c
                   ELSE /\ getGlobalInterceptor' = getGlobalInterceptor
                        /\ config' = config
       ]_vars

\* C31 witness: the global instance is active again after
\* stopGlobalInterceptor rejected an entry it held, and it is still the first
\* instance
C31_Witness ==
  /\ getGlobalInterceptor = 1
  /\ isActive
  /\ \E i \in Ids : fired[i].cleared = 1

\* C32: any two entries that are in the registry at the same time have
\* different ids, and enqueueing a failed request never replaces an entry
\* that is already queued: every entry queued before is queued after, and
\* the registry is larger by exactly one.
C32_EnqueueAddsOne ==
  /\ [](\A k, l \in 1..Len(pendingRequests) :
          k # l => id[pendingRequests[k]] # id[pendingRequests[l]])
  /\ [][\A i \in Ids, o \in Outcomes :
          (FetchSettle(i, o) /\ Eligible(o)) =>
            /\ Range(pendingRequests) \subseteq Range(pendingRequests')
            /\ Len(pendingRequests') = Len(pendingRequests) + 1]_vars

====
